---- MODULE Spec2Model ----
(***************************************************************************)
(* midi-pipewire-volume: the pw-dump stream framer (PWDump) and the        *)
(* object mirror (PWState) of midipwvol/pypewyre.py as state machines.     *)
(***************************************************************************)
EXTENDS Integers, Sequences, FiniteSets, TLC

VARIABLES
    \* ---- PWDump (pypewyre.py 50-198) and its subprocess ----
    proc,              \* self.proc: 0 is None, n > 0 the n-th pw-dump instance
    alive,             \* self.proc.poll() is None
    items,             \* what the current instance has begun to write:
                       \* <<[txt, sep], ...>>, a value and the whitespace after it
    wpos,              \* bytes the instance has written to its stdout pipe
    rpos,              \* bytes the framer has read from that pipe
    buffer,            \* self.buffer (decoded characters)
    buffer_was_reset,  \* self.buffer_was_reset
    out,               \* what __next__ returned since the last _run
    result,            \* how the last __next__ call ended
    tried,             \* the buffer that call handed to raw_decode (<<>>: none)
    stalled,           \* a decode of the current buffer content has failed
    bufInst,           \* instances whose bytes are in self.buffer
    replaced,          \* the current instance replaced one that had exited
    \* ---- PWState (pypewyre.py 514-571) ----
    db,                \* self.db, in dict (insertion) order: <<[id, info], ...>>
    twin,              \* the mirror of a second PWState that is given every
                       \* batch in two parts, as two updates
    lastKind,          \* the last update's argument: "none", "RESET", "batch"
    lastSize,          \* the number of records of the last batch
    lastLen,           \* the number of them update took before it ended
    lastFor,           \* per id, the info of the last record for it that
                       \* update took from the last batch (InfoNone: no record)
    err,               \* the exception the last update raised, or "none"
    qres,              \* the last query since the last update, and its result
    \* ---- calls of the lookup methods of PWState, with any arguments ----
    call,              \* the last call: its arguments, what it raised, the
                       \* objects it gave and the (object, filter) pairs on
                       \* which it ran _PWFilter.match
    \* ---- DdcutilInterface (ddcutil_service.py 21-105) and its timers ----
    future_values,     \* self.future_values, in dict order:
                       \* <<[display, brightness, contrast], ...>>; a value is
                       \* <<v>>, None is <<>>
    timer_thread,      \* self.timer_thread: 0 is None, n the n-th Timer
    tstate,            \* per Timer: "unborn", "armed" (waiting), "cancelled",
                       \* "run" (function called), "taken" (past the lock),
                       \* "calling" (in the SetVcp loop), "done", "died"
    mpc,               \* where the calling thread is in
                       \* set_brightness_contrast: "idle", "merge"
    req,               \* the arguments of the request it is serving
    nreq,              \* requests made so far
    actions,           \* per Timer: the actions list of its running flush
    issued,            \* per Timer: how many of them it has passed to SetVcp
                       \* (both forgotten when the flush has made its last
                       \* call)
    ncalls,            \* how many SetVcp calls have been made so far
    lastCall,          \* the arguments of the last of them
    flushes,           \* how many flushes have taken the pending map
    bright1,           \* for the brightness of display 1: the percentage of
                       \* the last request and the one of the last SetVcp
                       \* call, 0 when there has been none
    timer_lock,        \* the Timer whose flush holds timer_lock, 0 when no
                       \* flush holds it
    lateTake,          \* one of them did in a Timer that was no longer
                       \* self.timer_thread
    latest,            \* per display and field, the value of the last request
                       \* that set it since the last flush took the map
    inBurst,           \* on: every request so far asked for the brightness
                       \* of display 1 alone and came before the Timer armed
                       \* by the one before it had fired; value: what the
                       \* last of them asked
    dropped,           \* a flush ended with actions it never passed to SetVcp
    unreported,        \* a SetVcp call returned an error status that was
                       \* reported nowhere
    \* ---- main: the queue and the dispatch loop ----
    main_queue,        \* main_queue, oldest item first: [tag, data, port,
                       \* msg]; seen is what the mirror should be when the
                       \* item is taken
    nput,              \* items put so far
    shadow,            \* the "pw" items put so far, applied in that order
    ntaken,            \* items the loop has taken so far
    ended,             \* the exception that left the while loop: "none",
                       \* "handler"
    handled,           \* n: runs of handle_midi_message; port, msg: the
                       \* arguments of the last; ok: each run found the
                       \* mirror as its item's seen
    raisedAt,          \* ntaken when handle_midi_message raised, 0 if never
    pw_thread,         \* state: the thread of pw_dump_producer is "running"
                       \* or has ended with "AssertionError"; taken: ntaken
                       \* when it ended
    \* ---- utils: a call of interp ----
    icall,             \* [value, pairs, res]: the arguments and the outcome
    \* ---- PWState called by several threads ----
    lock,              \* self.lock, an RLock: owner is the thread holding it
                       \* (0: none), depth how many times it has taken it
    upd,               \* per thread, its call of update in progress: on,
                       \* i (the records of the batch it has applied),
                       \* moved (one of them has changed the mirror)
    scan,              \* per thread, its generator of query_all: state
                       \* ("none", "open": suspended at a yield, "kept": the
                       \* caller has stopped consuming it and still refers to
                       \* it), and the dict iterator: rest (the ids ahead of
                       \* it), size0 (the size of the dict when it was
                       \* made), frozen (update has bound self.db to a new
                       \* dict), old and oldsize (what is ahead of it in
                       \* the dict it still iterates, and the size of that
                       \* dict); expect: what the mirror held when the scan
                       \* took the lock, less what it has yielded
    torn,              \* the thread whose update raised and left a part of
                       \* its batch applied (0: none)
    scanBad            \* "RuntimeError": a scan has raised; "wrong": a scan
                       \* has yielded something else than the mirror held
                       \* when it took the lock; "none"

framerVars == <<proc, alive, items, wpos, rpos, buffer, buffer_was_reset,
                out, result, tried, stalled, bufInst, replaced>>
mirrorVars == <<db, twin, lastKind, lastSize, lastLen, lastFor, err, qres>>
lookupVars == <<call>>
ddcVars == <<future_values, timer_thread, tstate, mpc, req, nreq, actions,
             issued, ncalls, lastCall, flushes, lateTake, latest, inBurst,
             dropped, unreported, timer_lock, bright1>>
queueVars == <<main_queue, nput, shadow, ntaken, ended, handled, raisedAt,
               pw_thread>>
utilVars == <<icall>>
lockVars == <<lock, upd, scan, torn, scanBad>>
restVars == <<lookupVars, ddcVars, queueVars, utilVars, lockVars>>
vars == <<framerVars, mirrorVars, restVars>>

\* every variable but those of one part
besideLookup ==
    <<framerVars, mirrorVars, ddcVars,
      queueVars, utilVars, lockVars>>
besideDdc ==
    <<framerVars, mirrorVars, lookupVars,
      queueVars, utilVars, lockVars>>
besideQueue ==
    <<framerVars, mirrorVars, lookupVars,
      ddcVars, utilVars, lockVars>>
besideUtil ==
    <<framerVars, mirrorVars, lookupVars,
      ddcVars, queueVars, lockVars>>
besideLock ==
    <<framerVars, mirrorVars, lookupVars,
      ddcVars, queueVars, utilVars>>

----------------------------------------------------------------------------
(* Bounds of the model. *)

\* bytes one pw-dump instance writes before it falls silent
MaxBytes == 10
\* launches of the subprocess
MaxRuns == 2
\* records in one diff batch
MaxBatch == 2
\* keyword arguments of one query
MaxFilters == 2
\* calls of set_brightness_contrast
MaxRequests == 3
\* items the two producer threads put into main_queue
MaxItems == 3
\* pairs in the list given to interp
MaxPairs == 3
\* records in a batch applied while other threads use the mirror
LockBatchLen == 2
\* the ceiling of self.buffer: 1024 * 1024 * 16 characters in the source
\* (pypewyre.py 181), scaled down so that a buffer can reach it
BufferCeiling == 5

----------------------------------------------------------------------------
(* Bytes and characters.  A byte or a character is a one-element token.    *)

Quote == "\""
\* the two bytes of a UTF-8 encoded U+00E9, and the character they decode to
LeadByte == "xC3"
ContByte == "xA9"
EAcute == "U+E9"

Whitespace == {" "}
Digits == {"1"}

\* b"...".decode("utf8"), strict: a lead byte needs its continuation byte
RECURSIVE Utf8Decode(_)
Utf8Decode(bs) ==
    IF bs = <<>> THEN [ok |-> TRUE, s |-> <<>>]
    ELSE IF Head(bs) = LeadByte
         THEN IF Len(bs) >= 2 /\ bs[2] = ContByte
              THEN LET r == Utf8Decode(SubSeq(bs, 3, Len(bs)))
                   IN  [ok |-> r.ok, s |-> <<EAcute>> \o r.s]
              ELSE [ok |-> FALSE, s |-> <<>>]
    ELSE IF Head(bs) = ContByte
         THEN [ok |-> FALSE, s |-> <<>>]
    ELSE LET r == Utf8Decode(Tail(bs))
         IN  [ok |-> r.ok, s |-> <<Head(bs)>> \o r.s]

----------------------------------------------------------------------------
(* json.JSONDecoder().raw_decode on the characters of this model: arrays,  *)
(* numbers and strings.  Indices are 1-based; "end" is the index after the *)
(* parsed text.                                                            *)

Fail == [ok |-> FALSE, end |-> 0]

RECURSIVE SkipWs(_, _)
SkipWs(s, i) ==
    IF i <= Len(s) /\ s[i] \in Whitespace THEN SkipWs(s, i + 1) ELSE i

RECURSIVE NumberEnd(_, _)
NumberEnd(s, i) ==
    IF i <= Len(s) /\ s[i] \in Digits THEN NumberEnd(s, i + 1) ELSE i

\* py_scanstring: i is the index after the opening quote
RECURSIVE ScanString(_, _)
ScanString(s, i) ==
    IF i > Len(s) THEN Fail
    ELSE IF s[i] = Quote THEN [ok |-> TRUE, end |-> i + 1]
    ELSE ScanString(s, i + 1)

RECURSIVE ScanOnce(_, _)
RECURSIVE ArrayItems(_, _)

\* JSONArray: i is the index after the opening bracket
JSONArray(s, i) ==
    LET j == SkipWs(s, i)
    IN  IF j <= Len(s) /\ s[j] = "]" THEN [ok |-> TRUE, end |-> j + 1]
        ELSE ArrayItems(s, j)

ArrayItems(s, j) ==
    LET v == ScanOnce(s, j)
    IN  IF ~v.ok THEN Fail
        ELSE LET k == SkipWs(s, v.end)
             IN  IF k > Len(s) THEN Fail
                 ELSE IF s[k] = "]" THEN [ok |-> TRUE, end |-> k + 1]
                 ELSE IF s[k] # "," THEN Fail
                 ELSE ArrayItems(s, SkipWs(s, k + 1))

\* scan_once: no whitespace is skipped before the value
ScanOnce(s, i) ==
    IF i > Len(s) THEN Fail
    ELSE IF s[i] = Quote THEN ScanString(s, i + 1)
    ELSE IF s[i] = "[" THEN JSONArray(s, i + 1)
    ELSE IF s[i] \in Digits THEN [ok |-> TRUE, end |-> NumberEnd(s, i)]
    ELSE Fail

NotWs(c) == c \notin Whitespace

\* raw_decode(s): ok is FALSE for a JSONDecodeError; index counts the
\* characters consumed; data is the parsed value, written without whitespace
RawDecode(s) ==
    LET r == ScanOnce(s, 1)
    IN  IF r.ok
        THEN [ok |-> TRUE, index |-> r.end - 1,
              data |-> SelectSeq(SubSeq(s, 1, r.end - 1), NotWs)]
        ELSE [ok |-> FALSE, index |-> 0, data |-> <<>>]

\* str.lstrip()
lstrip(s) == SubSeq(s, SkipWs(s, 1), Len(s))

----------------------------------------------------------------------------
(* What a pw-dump instance writes: JSON arrays back to back, each followed *)
(* by optional whitespace (pw-dump ends every array with a newline).       *)

TxtEmpty == <<"[", "]">>
TxtPair == <<"[", "[", "]", ",", " ", "1", "]">>
TxtAccent == <<"[", Quote, LeadByte, ContByte, Quote, "]">>

ValueTexts == {TxtEmpty, TxtPair, TxtAccent}
Seps == {<<>>, <<" ">>}
Items == [txt : ValueTexts, sep : Seps]

RECURSIVE Bytes(_)
Bytes(its) ==
    IF its = <<>> THEN <<>>
    ELSE Head(its).txt \o Head(its).sep \o Bytes(Tail(its))

\* the offset of the last byte of the i-th value
EndOffset(its, i) == Len(Bytes(SubSeq(its, 1, i - 1))) + Len(its[i].txt)

\* the value a text denotes: its characters without the whitespace
ValueOf(txt) == SelectSeq(Utf8Decode(txt).s, NotWs)

----------------------------------------------------------------------------
(* PWDump *)

ResetItem == [kind |-> "RESET", val |-> <<>>, resumed |-> FALSE]
DataItem(v, r) == [kind |-> "data", val |-> v, resumed |-> r]

\* an exception, or a call that never returns, ends pw_dump_producer:
\* nothing catches it (__init__.py 19-23)
Fatal == result \in {"AssertionError", "UnicodeDecodeError", "hang"}

\* _run_if_needed: self.proc is None, or self.proc.poll() is not None
NeedsRun == proc = 0 \/ ~alive

\* _run with the reset flag left as it was
_run_KeepsFlag == [buffer |-> <<>>, buffer_was_reset |-> buffer_was_reset]

\* _run: the fields it assigns after Popen
_run == [buffer |-> <<>>, buffer_was_reset |-> TRUE]

\* the except branch with the buffered text thrown away
OnDecodeError_Drops(buf1) ==
    [result |-> IF Len(buf1) < BufferCeiling
                THEN "StopIteration" ELSE "AssertionError",
     buffer |-> <<>>]

\* the except branch failing only past the ceiling, not at it
OnDecodeError_Past(buf1) ==
    [result |-> IF Len(buf1) <= BufferCeiling
                THEN "StopIteration" ELSE "AssertionError",
     buffer |-> buf1]

\* except json.JSONDecodeError: assert len(self.buffer) < 1024 * 1024 * 16,
\* then StopIteration; self.buffer keeps what was read
OnDecodeError(buf1) ==
    [result |-> IF Len(buf1) < BufferCeiling
                THEN "StopIteration" ELSE "AssertionError",
     buffer |-> buf1]

\* __next__ after _run_if_needed, on the fields buf and flag and the bytes
\* `chunk` that stdout.read returns until it returns None; eof: the pipe
\* reached end-of-file instead, where read returns b"" and never None
NextOutcome(buf, flag, chunk, eof) ==
    IF flag
    THEN [result |-> "RESET", buffer |-> buf, flag |-> FALSE, read |-> FALSE,
          tried |-> <<>>]
    ELSE IF eof
    THEN [result |-> "hang", buffer |-> buf, flag |-> flag, read |-> TRUE,
          tried |-> <<>>]
    ELSE LET dec == Utf8Decode(chunk)
             buf1 == buf \o dec.s
             d == RawDecode(buf1)
         IN  IF ~dec.ok
             THEN [result |-> "UnicodeDecodeError", buffer |-> buf,
                   flag |-> flag, read |-> TRUE, tried |-> <<>>]
             ELSE IF Len(buf1) = 0
             THEN [result |-> "StopIteration", buffer |-> buf1,
                   flag |-> flag, read |-> TRUE, tried |-> <<>>]
             ELSE IF ~d.ok
             THEN [result |-> OnDecodeError(buf1).result,
                   buffer |-> OnDecodeError(buf1).buffer,
                   flag |-> flag, read |-> TRUE, tried |-> buf1]
             ELSE [result |-> "data",
                   buffer |-> lstrip(SubSeq(buf1, d.index + 1, Len(buf1))),
                   flag |-> flag, read |-> TRUE, tried |-> buf1]

\* the launches one _run_if_needed can make: a first launch is followed by a
\* poll, and a second launch when the fresh process has already exited
Spawns == IF proc = 0 THEN {n \in {1, 2} : n <= MaxRuns} ELSE {1}

\* PWDump.__next__
__next__ ==
    /\ ~Fatal
    /\ \E spawn \in (IF NeedsRun THEN Spawns ELSE {0}),
          eof \in (IF NeedsRun \/ buffer_was_reset THEN {FALSE} ELSE BOOLEAN) :
        LET need == NeedsRun
            buf0 == IF need THEN _run.buffer ELSE buffer
            flag0 == IF need THEN _run.buffer_was_reset ELSE buffer_was_reset
            inst0 == IF buf0 = <<>> THEN {} ELSE bufInst
            out0 == IF need THEN <<>> ELSE out
            stalled0 == IF need THEN FALSE ELSE stalled
            avail == IF need THEN <<>> ELSE SubSeq(Bytes(items), rpos + 1, wpos)
            o == NextOutcome(buf0, flag0, avail, eof)
        IN  /\ proc' = proc + spawn
            /\ items' = IF need THEN <<>> ELSE items
            /\ alive' = IF o.result = "hang" THEN FALSE ELSE (need \/ alive)
            /\ wpos' = IF need THEN 0 ELSE wpos
            /\ rpos' = IF need THEN 0 ELSE IF o.read THEN wpos ELSE rpos
            /\ buffer' = o.buffer
            /\ buffer_was_reset' = o.flag
            /\ result' = o.result
            /\ tried' = o.tried
            /\ out' = CASE o.result = "RESET" -> Append(out0, ResetItem)
                        [] o.result = "data" ->
                             Append(out0, DataItem(RawDecode(o.tried).data, stalled0))
                        [] OTHER -> out0
            /\ stalled' = CASE o.result = "data" -> FALSE
                            [] o.tried # <<>> -> TRUE
                            [] OTHER -> stalled0
            /\ bufInst' = IF o.buffer = <<>> THEN {}
                          ELSE IF o.read /\ avail # <<>> THEN inst0 \cup {proc}
                          ELSE inst0
            /\ replaced' = IF need THEN proc # 0 ELSE replaced
    /\ UNCHANGED <<mirrorVars, restVars>>

\* PWDump.fileno, as select.select calls it in blocking_generator
fileno ==
    /\ ~Fatal
    /\ NeedsRun
    /\ \E spawn \in Spawns :
        /\ proc' = proc + spawn
        /\ items' = <<>>
        /\ alive' = TRUE
        /\ wpos' = 0
        /\ rpos' = 0
        /\ buffer' = _run.buffer
        /\ buffer_was_reset' = _run.buffer_was_reset
        /\ bufInst' = IF _run.buffer = <<>> THEN {} ELSE bufInst
        /\ out' = <<>>
        /\ result' = "none"
        /\ tried' = <<>>
        /\ stalled' = FALSE
        /\ replaced' = (proc # 0)
    /\ UNCHANGED <<mirrorVars, restVars>>

\* the subprocess writes some more of its output to the pipe: more of the
\* value (and whitespace) it has begun, or the first bytes of a next one
ProcWrite ==
    /\ ~Fatal
    /\ proc # 0
    /\ alive
    /\ LET done == Len(Bytes(items))
       IN  IF wpos < done
           THEN /\ \E n \in (wpos + 1)..done : wpos' = n
                /\ items' = items
           ELSE \E it \in Items :
                    /\ done + Len(it.txt) + Len(it.sep) <= MaxBytes
                    /\ items' = Append(items, it)
                    /\ \E n \in (wpos + 1)..(done + Len(it.txt) + Len(it.sep)) :
                           wpos' = n
    /\ UNCHANGED <<proc, alive, rpos, buffer, buffer_was_reset, out,
                   result, tried, stalled, bufInst, replaced>>
    /\ UNCHANGED <<mirrorVars, restVars>>

\* the subprocess exits
ProcExit ==
    /\ ~Fatal
    /\ proc # 0
    /\ alive
    /\ proc < MaxRuns
    /\ alive' = FALSE
    /\ UNCHANGED <<proc, items, wpos, rpos, buffer, buffer_was_reset, out,
                   result, tried, stalled, bufInst, replaced>>
    /\ UNCHANGED <<mirrorVars, restVars>>

----------------------------------------------------------------------------
(* PWObject and PWState *)

Ids == {3, 5}

McSink == <<"A", "u", "d", "i", "o", "/", "S", "i", "n", "k">>

\* the "info" of a record of pw-dump: the key is absent, or its value is
\* null, or a dict; mc is the "media.class" of its "props" ("": there is none)
InfoAbsent == [kind |-> "absent", mc |-> <<>>]
InfoNull == [kind |-> "null", mc |-> <<>>]
InfoEmpty == [kind |-> "dict", mc |-> <<>>]
InfoSink == [kind |-> "dict", mc |-> McSink]
InfoNone == [kind |-> "none", mc |-> <<>>]
InfoVals == {InfoAbsent, InfoNull, InfoEmpty, InfoSink}

Records == [id : Ids, info : InfoVals]
Batches == UNION {[1..n -> Records] : n \in 0..MaxBatch}
ResetData == [reset |-> TRUE, objs |-> <<>>]
BatchData(B) == [reset |-> FALSE, objs |-> B]

\* needle in hay, for two str
Contains(needle, hay) ==
    \E i \in 0..(Len(hay) - Len(needle)) :
        SubSeq(hay, i + 1, i + Len(needle)) = needle

\* PWObject.media_class: info.get("props", {}).get("media.class", "")
media_class(obj) == obj.info.mc

\* PWObject.is_sink
is_sink(obj) ==
    \/ Contains(<<"S", "i", "n", "k">>, media_class(obj))
    \/ Contains(<<"I", "n", "p", "u", "t">>, media_class(obj))

\* dict operations on self.db
HasId(d, id) == \E i \in DOMAIN d : d[i].id = id
DelId(d, id) == LET Test(o) == o.id # id IN SelectSeq(d, Test)
PutObj(d, obj) ==
    IF HasId(d, obj.id)
    THEN [i \in DOMAIN d |-> IF d[i].id = obj.id THEN obj ELSE d[i]]
    ELSE Append(d, obj)
GetObj(d, id) == d[CHOOSE i \in DOMAIN d : d[i].id = id]

\* a record deletes when its info is empty or absent as well
IsDelete_Empty(obj) == obj.info.mc = <<>>

\* update: obj.get("info", {}) is None
IsDelete(obj) == obj.info.kind = "null"

\* update forgetting nothing at a reset
OnReset_Keeps(d) == d

\* update: self.db = {}
OnReset(d) == <<>>

\* the for loop of update from record i on: n is the number of records it
\* has taken when it ends or raises
RECURSIVE UpdateFrom(_, _, _)
UpdateFrom(d, B, i) ==
    IF i > Len(B) THEN [db |-> d, err |-> "none", n |-> Len(B)]
    ELSE IF IsDelete(B[i])
         THEN IF HasId(d, B[i].id)
              THEN UpdateFrom(DelId(d, B[i].id), B, i + 1)
              ELSE [db |-> d, err |-> "KeyError", n |-> i]
         ELSE UpdateFrom(PutObj(d, B[i]), B, i + 1)

\* each batch taken for a full picture: the mirror is emptied first
Update_Snapshot(d, data) ==
    IF data.reset THEN [db |-> OnReset(d), err |-> "none", n |-> 0]
    ELSE UpdateFrom(<<>>, data.objs, 1)

\* PWState.update(data) on the mirror d
Update(d, data) ==
    IF data.reset THEN [db |-> OnReset(d), err |-> "none", n |-> 0]
    ELSE UpdateFrom(d, data.objs, 1)

\* the info of the last of the first n records of B that names id
LastFor(B, n, id) ==
    LET at == {i \in 1..n : B[i].id = id}
    IN  IF at = {} THEN InfoNone
        ELSE B[CHOOSE i \in at : \A j \in at : j <= i].info

\* Python values that reach the lookup methods: t is the type, n the number
\* of a bool or an int (True is 1), xs the items of a list of ints
PyBool(b) == [t |-> "bool", n |-> IF b THEN 1 ELSE 0, xs |-> <<>>]
PyInt(n) == [t |-> "int", n |-> n, xs |-> <<>>]
PyList(xs) == [t |-> "list", n |-> 0, xs |-> xs]
PyFloat == [t |-> "float", n |-> 0, xs |-> <<>>]
PyBytes == [t |-> "bytes", n |-> 0, xs |-> <<>>]
PyDict == [t |-> "mapping", n |-> 0, xs |-> <<>>]

\* a == b of Python: a bool and an int compare as numbers
PyEq(a, b) ==
    \/ a.t \in {"bool", "int"} /\ b.t \in {"bool", "int"} /\ a.n = b.n
    \/ a.t = "list" /\ b.t = "list" /\ a.xs = b.xs

\* hash(v) raises TypeError for a list and for a dict
Hashable(v) == v.t \notin {"list", "mapping"}

\* the accessors of PWObject the model has; getattr of any other name raises
Accessors == {"id", "is_sink"}
GetAttr(obj, attr) ==
    CASE attr = "id" -> PyInt(obj.id)
      [] attr = "is_sink" -> PyBool(is_sink(obj))

\* a filter that takes a float for a plain value
_PWFilter_AnyScalar(attr, values) ==
    IF values.t \in {"bytes", "mapping"}
    THEN [ok |-> FALSE, attr |-> attr, set_values |-> {}, list_values |-> <<>>]
    ELSE IF values.t = "list"
    THEN [ok |-> TRUE, attr |-> attr, set_values |-> {},
          list_values |-> [i \in DOMAIN values.xs |-> PyInt(values.xs[i])]]
    ELSE [ok |-> TRUE, attr |-> attr, set_values |-> {values},
          list_values |-> <<>>]

\* _PWFilter.__init__(attr, values): ok FALSE is the TypeError
_PWFilter(attr, values) ==
    IF values.t \in {"bytes", "float", "mapping"}
    THEN [ok |-> FALSE, attr |-> attr, set_values |-> {}, list_values |-> <<>>]
    ELSE IF values.t \in {"bool", "int"}
    THEN [ok |-> TRUE, attr |-> attr, set_values |-> {values},
          list_values |-> <<>>]
    ELSE IF values.t = "list"
    THEN [ok |-> TRUE, attr |-> attr, set_values |-> {},
          list_values |-> [i \in DOMAIN values.xs |-> PyInt(values.xs[i])]]
    ELSE [ok |-> FALSE, attr |-> attr, set_values |-> {}, list_values |-> <<>>]

\* _PWFilter.match(obj): "True", "False", or the AttributeError of getattr
Match(f, obj) ==
    IF f.attr \notin Accessors THEN "AttributeError"
    ELSE LET value == GetAttr(obj, f.attr)
         IN  IF \/ \E x \in f.set_values : PyEq(value, x)
                \/ \E i \in DOMAIN f.list_values : PyEq(value, f.list_values[i])
             THEN "True" ELSE "False"

\* any(...) in the place of all(...)
RECURSIVE AllMatch_Any(_, _, _)
AllMatch_Any(fs, obj, k) ==
    IF k > Len(fs) THEN [res |-> "False", n |-> Len(fs)]
    ELSE LET m == Match(fs[k], obj)
         IN  IF m = "False" THEN AllMatch_Any(fs, obj, k + 1)
             ELSE [res |-> m, n |-> k]

\* all(f.match(obj) for f in filter_list) from filter k on: it stops at the
\* first filter that does not match; n is the number of filters it ran
RECURSIVE AllMatch(_, _, _)
AllMatch(fs, obj, k) ==
    IF k > Len(fs) THEN [res |-> "True", n |-> Len(fs)]
    ELSE LET m == Match(fs[k], obj)
         IN  IF m = "True" THEN AllMatch(fs, obj, k + 1)
             ELSE [res |-> m, n |-> k]

\* filter_list = [_PWFilter(attr, values) for (attr, values) in filters.items()]
FilterList(kw) ==
    LET made == [k \in DOMAIN kw |-> _PWFilter(kw[k].attr, kw[k].val)]
    IN  IF \E k \in DOMAIN made : ~made[k].ok
        THEN [err |-> "TypeError", fs |-> <<>>]
        ELSE [err |-> "none", fs |-> made]

\* the loop of the generator query_all from object i on, until the consumer
\* has taken want objects: what it raised, the objects it yielded, and the
\* (object, filter) positions on which match ran
RECURSIVE Generate(_, _, _, _, _, _)
Generate(d, fs, i, want, objs, evals) ==
    IF i > Len(d) \/ Len(objs) >= want
    THEN [err |-> "none", objs |-> objs, evals |-> evals]
    ELSE LET a == AllMatch(fs, d[i], 1)
             ev == evals \cup {<<i, k>> : k \in 1..a.n}
         IN  CASE a.res = "AttributeError" ->
                    [err |-> "AttributeError", objs |-> objs, evals |-> ev]
               [] a.res = "True" ->
                    Generate(d, fs, i + 1, want, Append(objs, d[i]), ev)
               [] OTHER ->
                    Generate(d, fs, i + 1, want, objs, ev)

\* query_all(**kw) consumed until want objects are taken
Scan(d, kw, want) ==
    LET fl == FilterList(kw)
    IN  IF fl.err # "none"
        THEN [err |-> fl.err, objs |-> <<>>, evals |-> {}]
        ELSE Generate(d, fl.fs, 1, want, <<>>, {})

\* query taking every object of the scan before it answers
QueryDemand_Drain(d) == Len(d)

\* query: "for obj in self.query_all(**filters): return obj" takes one object
QueryDemand(d) == 1

SinkFilter == <<[attr |-> "is_sink", val |-> PyBool(TRUE)]>>
FilterSets == {<<>>, SinkFilter}

\* the objects query_all(**filters) yields, in the order of self.db.values()
QueryAll(d, filters) == Scan(d, filters, Len(d)).objs

\* query answering with the last match
Query_Last(d, filters) ==
    LET all == QueryAll(d, filters)
    IN  IF all = <<>> THEN <<>> ELSE <<all[Len(all)]>>

\* query(**filters): the first of them, <<>> for None
Query(d, filters) == Scan(d, filters, QueryDemand(d)).objs

\* an exception of update ends the dispatch loop of main: nothing catches it
MainDead == err # "none"

\* the dispatch loop takes a ("pw", ...) item and calls pw_state.update; the
\* twin is given the same batch as its first k records and then the rest
update ==
    /\ ~MainDead
    /\ \E data \in {ResetData} \cup {BatchData(B) : B \in Batches} :
        LET u == Update(db, data)
        IN  /\ db' = u.db
            /\ err' = u.err
            /\ lastKind' = IF data.reset THEN "RESET" ELSE "batch"
            /\ lastSize' = IF data.reset THEN lastSize ELSE Len(data.objs)
            /\ lastLen' = IF data.reset THEN lastLen ELSE u.n
            /\ lastFor' = IF data.reset THEN lastFor
                           ELSE [id \in Ids |-> LastFor(data.objs, u.n, id)]
            /\ \E k \in 0..Len(data.objs) :
                 LET t1 == Update(twin, [data EXCEPT !.objs = SubSeq(@, 1, k)])
                     t2 == Update(t1.db, [data EXCEPT
                                            !.objs = SubSeq(@, k + 1, Len(@))])
                 IN  twin' = IF t1.err = "none" THEN t2.db ELSE t1.db
            /\ qres' = [op |-> "none", filters |-> <<>>, objs |-> <<>>]
    /\ UNCHANGED <<framerVars, restVars>>

\* PWState.query_all(**filters), consumed to its end
query_all ==
    /\ ~MainDead
    /\ \E filters \in FilterSets :
        qres' = [op |-> "query_all", filters |-> filters,
                 objs |-> QueryAll(db, filters)]
    /\ UNCHANGED <<db, twin, lastKind, lastSize, lastLen, lastFor, err>>
    /\ UNCHANGED <<framerVars, restVars>>

\* PWState.query(**filters)
query ==
    /\ ~MainDead
    /\ \E filters \in FilterSets :
        qres' = [op |-> "query", filters |-> filters,
                 objs |-> Query(db, filters)]
    /\ UNCHANGED <<db, twin, lastKind, lastSize, lastLen, lastFor, err>>
    /\ UNCHANGED <<framerVars, restVars>>

\* get_by_ids(*ids): "if id in self.db: yield self.db[id]" for each argument;
\* the membership test hashes the argument
RECURSIVE GetByIds(_, _, _, _)
GetByIds(d, args, i, objs) ==
    IF i > Len(args) THEN [err |-> "none", objs |-> objs]
    ELSE IF ~Hashable(args[i]) THEN [err |-> "TypeError", objs |-> objs]
    ELSE IF args[i].t \in {"bool", "int"} /\ HasId(d, args[i].n)
         THEN GetByIds(d, args, i + 1, Append(objs, GetObj(d, args[i].n)))
         ELSE GetByIds(d, args, i + 1, objs)

\* get_by_id(id): "for obj in self.get_by_ids([id]): return obj", then None
GetById(d, id) ==
    LET g == GetByIds(d, <<PyList(<<id>>)>>, 1, <<>>)
    IN  [err |-> g.err,
         objs |-> IF g.objs = <<>> THEN <<>> ELSE <<Head(g.objs)>>]

\* the positional arguments get_by_ids is called with
IdArgs == {<<>>} \cup {<<PyInt(a)>> : a \in Ids}
              \cup {<<PyInt(a), PyInt(b)>> : a, b \in Ids}

\* PWState.get_by_ids(*ids), consumed to its end
get_by_ids ==
    /\ ~MainDead
    /\ \E args \in IdArgs :
        LET g == GetByIds(db, args, 1, <<>>)
        IN  call' = [op |-> "get_by_ids", kw |-> <<>>, args |-> args,
                     err |-> g.err, objs |-> g.objs, evals |-> {}]
    /\ UNCHANGED besideLookup

\* PWState.get_by_id(id)
get_by_id ==
    /\ ~MainDead
    /\ \E id \in Ids :
        LET g == GetById(db, id)
        IN  call' = [op |-> "get_by_id", kw |-> <<>>, args |-> <<PyInt(id)>>,
                     err |-> g.err, objs |-> g.objs, evals |-> {}]
    /\ UNCHANGED besideLookup

\* the keyword arguments a query is called with: known and unknown
\* attribute names, values of supported and of unsupported types
KwItems ==
    {[attr |-> "is_sink", val |-> PyBool(TRUE)],
     [attr |-> "id", val |-> PyInt(5)],
     [attr |-> "id", val |-> PyList(<<3>>)],
     [attr |-> "bogus", val |-> PyBool(TRUE)],
     [attr |-> "is_sink", val |-> PyFloat],
     [attr |-> "id", val |-> PyBytes],
     [attr |-> "bogus", val |-> PyDict]}

\* **filters is a dict: no attribute name twice, in the order given
KwArgs ==
    {kw \in UNION {[1..n -> KwItems] : n \in 0..MaxFilters} :
        \A i, j \in DOMAIN kw : i # j => kw[i].attr # kw[j].attr}

\* PWState.query_all(**kw), consumed to its end
query_all_kwargs ==
    /\ ~MainDead
    /\ \E kw \in KwArgs :
        LET r == Scan(db, kw, Len(db))
        IN  call' = [op |-> "query_all", kw |-> kw, args |-> <<>>,
                     err |-> r.err, objs |-> r.objs, evals |-> r.evals]
    /\ UNCHANGED besideLookup

\* PWState.query(**kw)
query_kwargs ==
    /\ ~MainDead
    /\ \E kw \in KwArgs :
        LET r == Scan(db, kw, QueryDemand(db))
        IN  call' = [op |-> "query", kw |-> kw, args |-> <<>>,
                     err |-> r.err, objs |-> r.objs, evals |-> r.evals]
    /\ UNCHANGED besideLookup

InitMirror ==
    /\ db = <<>>
    /\ twin = <<>>
    /\ lastKind = "none"
    /\ lastSize = 0
    /\ lastLen = 0
    /\ lastFor = [id \in Ids |-> InfoNone]
    /\ err = "none"
    /\ qres = [op |-> "none", filters |-> <<>>, objs |-> <<>>]

----------------------------------------------------------------------------
(* DdcutilInterface: the debounced brightness and contrast requests *)

Displays == {1, 2}
Fields == {"brightness", "contrast"}

\* VCP feature codes of _set_brightness_contrast
VcpBrightness == 16
VcpContrast == 18

\* a value in the 0.0 to 1.0 range, in thousandths
Tenth == 100
Half == 500
NineTenths == 900

\* round(100 * v) of Python for v thousandths: to the nearest integer, a
\* half to the even one
Round100(v) ==
    LET q == v \div 10
        r == v % 10
    IN  IF r < 5 THEN q
        ELSE IF r > 5 THEN q + 1
        ELSE IF q % 2 = 0 THEN q ELSE q + 1

\* the calls of set_brightness_contrast(displays, brightness, contrast)
Requests ==
    {[displays |-> <<1>>, brightness |-> <<Tenth>>, contrast |-> <<>>],
     [displays |-> <<1>>, brightness |-> <<NineTenths>>, contrast |-> <<>>],
     [displays |-> <<2, 1>>, brightness |-> <<>>, contrast |-> <<Half>>]}

NoRequest == [displays |-> <<>>, brightness |-> <<>>, contrast |-> <<>>]

\* DisplayValues(): both fields None
DisplayValues(display) ==
    [display |-> display, brightness |-> <<>>, contrast |-> <<>>]

HasDisplay(fv, display) == \E i \in DOMAIN fv : fv[i].display = display

\* self.future_values[display] of the defaultdict: a missing key is added
Entry(fv, display) ==
    IF HasDisplay(fv, display) THEN fv ELSE Append(fv, DisplayValues(display))

\* the two assignments of the merge loop for one display
SetFields(fv, display, r) ==
    [i \in DOMAIN fv |->
        IF fv[i].display # display THEN fv[i]
        ELSE [display |-> display,
              brightness |-> IF r.brightness # <<>> THEN r.brightness
                             ELSE fv[i].brightness,
              contrast |-> IF r.contrast # <<>> THEN r.contrast
                           ELSE fv[i].contrast]]

\* the merge loop storing a fresh DisplayValues of the request's two arguments
RECURSIVE Merge_Replace(_, _, _)
Merge_Replace(fv, r, i) ==
    IF i > Len(r.displays) THEN fv
    ELSE LET e == Entry(fv, r.displays[i])
             put == [k \in DOMAIN e |->
                       IF e[k].display # r.displays[i] THEN e[k]
                       ELSE [display |-> e[k].display,
                             brightness |-> r.brightness,
                             contrast |-> r.contrast]]
         IN  Merge_Replace(put, r, i + 1)

\* set_brightness_contrast: "for display in displays" under the lock, from
\* the i-th display on
RECURSIVE Merge(_, _, _)
Merge(fv, r, i) ==
    IF i > Len(r.displays) THEN fv
    ELSE LET e == Entry(fv, r.displays[i])
         IN  IF r.brightness = <<>> /\ r.contrast = <<>>
             THEN Merge(fv, r, i + 1)
             ELSE Merge(SetFields(e, r.displays[i], r), r, i + 1)

\* the actions _set_brightness_contrast appends for one entry
EntryActions(e) ==
    (IF e.brightness # <<>>
     THEN <<[display |-> e.display, code |-> VcpBrightness,
             value |-> Round100(e.brightness[1])]>>
     ELSE <<>>)
    \o
    (IF e.contrast # <<>>
     THEN <<[display |-> e.display, code |-> VcpContrast,
             value |-> Round100(e.contrast[1])]>>
     ELSE <<>>)

\* _set_brightness_contrast: the loop over list(self.future_values.items())
RECURSIVE TakeActions(_)
TakeActions(fv) ==
    IF fv = <<>> THEN <<>>
    ELSE EntryActions(Head(fv)) \o TakeActions(Tail(fv))

\* cancel that does not stop a waiting Timer
Cancel_Late(ts, t) == ts

\* Timer.cancel(): a Timer still waiting will not call its function; one
\* that has called it is not stopped
Cancel(ts, t) ==
    IF ts[t] = "armed" THEN [ts EXCEPT ![t] = "cancelled"] ELSE ts

TimerIds == 1..MaxRequests

\* the value pending for a field of a display: <<>> when there is none
Pending(fv, display, field) ==
    IF ~HasDisplay(fv, display) THEN <<>>
    ELSE LET e == fv[CHOOSE i \in DOMAIN fv : fv[i].display = display]
         IN  IF field = "brightness" THEN e.brightness ELSE e.contrast

\* no SetVcp call yet
NoSetVcp == [display |-> 0, code |-> 0, value |-> 0]

\* the requests so far are no burst for the brightness of display 1
NoBurst == [on |-> FALSE, value |-> 0]

NoWant == [d \in Displays |-> [f \in Fields |-> <<>>]]

\* what a request asks for a field: <<>> when it does not set it
Asked(r, field) == IF field = "brightness" THEN r.brightness ELSE r.contrast
Names(r, display) == \E i \in DOMAIN r.displays : r.displays[i] = display

mainVars == <<mpc, req, nreq, timer_thread, inBurst>>
mapVars == <<future_values, latest, timer_lock>>
NoBright == [asked |-> 0, called |-> 0]
flushVars == <<actions, issued, ncalls, lastCall, flushes, lateTake,
               dropped, unreported>>

\* set_brightness_contrast, lines 79-80: a request arrives and cancels the
\* Timer of the one before it
request ==
    /\ mpc = "idle"
    /\ nreq < MaxRequests
    /\ \E r \in Requests :
        /\ req' = r
        /\ inBurst' =
             IF /\ inBurst.on
                /\ r.displays = <<1>> /\ r.brightness # <<>>
                /\ r.contrast = <<>>
                /\ timer_thread # 0 => tstate[timer_thread] = "armed"
             THEN [on |-> TRUE, value |-> r.brightness[1]]
             ELSE NoBurst
    /\ tstate' = IF timer_thread = 0 THEN tstate
                 ELSE Cancel(tstate, timer_thread)
    /\ nreq' = nreq + 1
    /\ mpc' = "merge"
    /\ UNCHANGED <<timer_thread, mapVars, flushVars, bright1>>
    /\ UNCHANGED besideDdc

\* lines 81-88: the request's values are merged under timer_lock, then a
\* new Timer is made and started (a flush does not look at timer_thread, so
\* none can tell the release of the lock from the start of the Timer)
merge ==
    /\ mpc = "merge"
    /\ timer_lock = 0
    /\ future_values' = Merge(future_values, req, 1)
    /\ latest' = [d \in Displays |-> [f \in Fields |->
                  IF Names(req, d) /\ Asked(req, f) # <<>>
                  THEN Asked(req, f) ELSE latest[d][f]]]
    /\ timer_thread' = nreq
    /\ tstate' = [tstate EXCEPT ![nreq] = "armed"]
    /\ req' = NoRequest
    /\ mpc' = "idle"
    /\ bright1' = IF Names(req, 1) /\ req.brightness # <<>>
                  THEN [bright1 EXCEPT !.asked = Round100(req.brightness[1])]
                  ELSE bright1
    /\ UNCHANGED <<nreq, inBurst, flushVars, timer_lock>>
    /\ UNCHANGED besideDdc

\* Timer.run: the wait is over and cancel has not been called: the Timer
\* calls _set_brightness_contrast
timer_fire ==
    /\ \E t \in TimerIds :
        /\ tstate[t] = "armed"
        /\ tstate' = [tstate EXCEPT ![t] = "run"]
    /\ UNCHANGED <<mainVars, mapVars, flushVars, bright1>>
    /\ UNCHANGED besideDdc

\* the with block going on to the end of _set_brightness_contrast
AfterWith_Held(t) == t

\* the holder of timer_lock when the with block of the flush of Timer t has
\* ended, at line 100: the print, the ping and the SetVcp calls come after it
AfterWith(t) == 0

\* _set_brightness_contrast, lines 92-100: under timer_lock every entry is
\* deleted from the map and its values become the actions list
flush_take ==
    /\ timer_lock = 0
    /\ \E t \in TimerIds :
        /\ tstate[t] = "run"
        /\ timer_lock' = AfterWith(t)
        /\ tstate' = [tstate EXCEPT ![t] = "taken"]
        /\ actions' = [actions EXCEPT ![t] = TakeActions(future_values)]
        /\ lateTake' = (lateTake \/ t # timer_thread)
    /\ future_values' = <<>>
    /\ flushes' = flushes + 1
    /\ latest' = NoWant
    /\ UNCHANGED <<mainVars, issued, ncalls, lastCall, dropped, unreported,
                   bright1>>
    /\ UNCHANGED besideDdc

\* lines 102-103: print and _auto_reconnect (the ping answers, or fails with
\* SdBusUnmappedMessageError and a new bus is opened); a flush with no
\* action ends here
flush_reconnect ==
    /\ \E t \in TimerIds :
        /\ tstate[t] = "taken"
        /\ tstate' = [tstate EXCEPT ![t] =
                        IF actions[t] = <<>> THEN "done" ELSE "calling"]
    /\ UNCHANGED <<mainVars, mapVars, flushVars, bright1>>
    /\ UNCHANGED besideDdc

\* a SetVcp call has failed before
Failed == unreported \/ \E t \in TimerIds : tstate[t] = "died"

\* lines 104-105: the next action is passed to SetVcp, which returns status
\* 0, returns an error status, or raises; the returned tuple is not looked
\* at, an exception leaves the loop and ends the Timer thread with the
\* calls it has not made (one failing call is followed to its end, a second
\* one is not)
flush_call ==
    /\ \E t \in TimerIds, outcome \in {"ok", "status", "raise"} :
        LET n == issued[t] + 1
            last == n = Len(actions[t])
            ends == last /\ outcome # "raise"
        IN  /\ tstate[t] = "calling"
            /\ outcome # "ok" => ~Failed
            /\ issued' = [issued EXCEPT ![t] = IF ends THEN 0 ELSE n]
            /\ actions' = [actions EXCEPT ![t] = IF ends THEN <<>> ELSE @]
            /\ ncalls' = ncalls + 1
            /\ lastCall' = actions[t][n]
            /\ bright1' =
                 IF actions[t][n].display = 1
                    /\ actions[t][n].code = VcpBrightness
                 THEN [bright1 EXCEPT !.called = actions[t][n].value]
                 ELSE bright1
            /\ tstate' = [tstate EXCEPT ![t] =
                            IF outcome = "raise" THEN "died"
                            ELSE IF last THEN "done" ELSE "calling"]
            /\ dropped' = (dropped \/ (outcome = "raise" /\ ~last))
            /\ unreported' = (unreported \/ outcome = "status")
    /\ UNCHANGED <<mainVars, mapVars, flushes, lateTake>>
    /\ UNCHANGED besideDdc

InitDdc ==
    /\ future_values = <<>>
    /\ timer_thread = 0
    /\ tstate = [t \in TimerIds |-> "unborn"]
    /\ mpc = "idle"
    /\ req = NoRequest
    /\ nreq = 0
    /\ actions = [t \in TimerIds |-> <<>>]
    /\ issued = [t \in TimerIds |-> 0]
    /\ ncalls = 0
    /\ lastCall = NoSetVcp
    /\ flushes = 0
    /\ lateTake = FALSE
    /\ timer_lock = 0
    /\ bright1 = NoBright
    /\ latest = NoWant
    /\ inBurst = [on |-> TRUE, value |-> 0]
    /\ dropped = FALSE
    /\ unreported = FALSE

NextDdc ==
    request \/ merge \/ timer_fire \/ flush_take \/ flush_reconnect
    \/ flush_call

----------------------------------------------------------------------------
(* main: the two producer threads, main_queue and the dispatch loop *)

\* the values pw_dump_producer puts: "RESET" and the decoded batches
QueuedBatches == {B \in Batches : Len(B) <= 1}
QueuedData == {ResetData} \cup {BatchData(B) : B \in QueuedBatches}

\* the port and the message of a MIDI event
MidiPort == 1
MidiMsgs == {0, 127}

\* ("pw", obj) of pw_dump_producer
PwItem(data) ==
    [tag |-> "pw", data |-> data, port |-> 0, msg |-> 0, seen |-> <<>>]

\* ("midi", port, msg) of midi_producer
MidiItem(port, msg, seen) ==
    [tag |-> "midi", data |-> ResetData, port |-> port, msg |-> msg,
     seen |-> seen]

\* get returning the item put last
Get_Newest(q) == [item |-> q[Len(q)], rest |-> SubSeq(q, 1, Len(q) - 1)]

\* main_queue.get() of a queue.Queue: the item put first
Get(q) == [item |-> Head(q), rest |-> Tail(q)]

\* the case the match statement of the loop takes
Route(item) ==
    IF item.tag = "pw" /\ item.data.reset THEN "reset"
    ELSE IF item.tag = "pw" THEN "batch"
    ELSE IF item.tag = "midi" THEN "midi"
    ELSE "invalid"

\* a loop that catches what the handler raises
AfterHandler_Caught(outcome) == "none"

\* the call of handle_midi_message stands in no try statement: what it
\* raises leaves the while loop
AfterHandler(outcome) == IF outcome = "raise" THEN "handler" ELSE "none"

\* the dispatch loop is over
LoopEnded == MainDead \/ ended # "none"

\* pw_dump_producer: q.put(("pw", obj))
put_pw ==
    /\ ~LoopEnded
    /\ pw_thread.state = "running"
    /\ nput < MaxItems
    /\ \E data \in QueuedData :
        /\ main_queue' = Append(main_queue, PwItem(data))
        /\ shadow' = IF data.reset THEN <<>>
                     ELSE UpdateFrom(shadow, data.objs, 1).db
    /\ nput' = nput + 1
    /\ UNCHANGED <<ntaken, ended, handled, raisedAt, pw_thread>>
    /\ UNCHANGED besideQueue

\* pw_dump_producer: PWDump.__next__ raises AssertionError (the buffer has
\* reached its ceiling) inside blocking_generator; nothing in the thread
\* catches it, the thread ends and main is told nothing
pw_fatal ==
    /\ ~LoopEnded
    /\ pw_thread.state = "running"
    /\ pw_thread' = [state |-> "AssertionError", taken |-> ntaken]
    /\ UNCHANGED <<main_queue, nput, shadow, ntaken, ended, handled, raisedAt>>
    /\ UNCHANGED besideQueue

\* midi_producer: q.put(("midi", port, msg))
put_midi ==
    /\ ~LoopEnded
    /\ nput < MaxItems
    /\ \E msg \in MidiMsgs :
        main_queue' = Append(main_queue, MidiItem(MidiPort, msg, shadow))
    /\ nput' = nput + 1
    /\ UNCHANGED <<shadow, ntaken, ended, handled, raisedAt, pw_thread>>
    /\ UNCHANGED besideQueue

\* one turn of the while loop of main: an item is taken and matched; the
\* handler returns or raises
dispatch ==
    /\ ~LoopEnded
    /\ main_queue # <<>>
    /\ LET g == Get(main_queue)
           item == g.item
       IN  /\ main_queue' = g.rest
           /\ ntaken' = ntaken + 1
           /\ IF Route(item) \in {"reset", "batch"}
              THEN LET u == Update(db, item.data)
                   IN  /\ db' = u.db
                       /\ err' = u.err
                       /\ UNCHANGED <<ended, handled, raisedAt>>
              ELSE /\ Route(item) = "midi"
                   /\ \E outcome \in {"return", "raise"} :
                        /\ ended' = AfterHandler(outcome)
                        /\ raisedAt' = IF outcome = "raise" THEN ntaken + 1
                                       ELSE raisedAt
                   /\ handled' = [n |-> handled.n + 1, port |-> item.port,
                                  msg |-> item.msg,
                                  ok |-> handled.ok /\ db = item.seen]
                   /\ UNCHANGED <<db, err>>
    /\ UNCHANGED <<nput, shadow, pw_thread>>
    /\ UNCHANGED <<twin, lastKind, lastSize, lastLen, lastFor, qres>>
    /\ UNCHANGED <<framerVars, lookupVars, ddcVars, utilVars, lockVars>>

InitQueue ==
    /\ main_queue = <<>>
    /\ nput = 0
    /\ shadow = <<>>
    /\ ntaken = 0
    /\ ended = "none"
    /\ handled = [n |-> 0, port |-> 0, msg |-> 0, ok |-> TRUE]
    /\ raisedAt = 0
    /\ pw_thread = [state |-> "running", taken |-> 0]

NextMain == put_pw \/ put_midi \/ pw_fatal \/ dispatch

----------------------------------------------------------------------------
(* utils: lerp and interp *)

\* the first elements and the second elements of the pairs, and the values
Breaks == 0..3
Ys == {0, 1}
Values == -1..4
PairLists == UNION {[1..n -> [a : Breaks, y : Ys]] : n \in 0..MaxPairs}

\* a number as the fraction num / den, den > 0
Rat(num, den) == [kind |-> "value", num |-> num, den |-> den]
ValueError == [kind |-> "ValueError", num |-> 0, den |-> 1]
NoResult == [kind |-> "none", num |-> 0, den |-> 1]

\* lerp that returns the start of the x~y range
lerp_Start(value, a, b, x, y) == Rat(x, 1)

\* lerp: x + (y - x) * (value - a) / (b - a), for a < b
lerp(value, a, b, x, y) == Rat(x * (b - a) + (y - x) * (value - a), b - a)

\* interp that repeats the boundary value out of bounds
InterpFrom_Clamp(value, pairs, i) ==
    IF pairs = <<>> THEN ValueError
    ELSE IF value <= pairs[1].a THEN Rat(pairs[1].y, 1)
    ELSE Rat(pairs[Len(pairs)].y, 1)

\* interp: the for loop over zip(pairs[:-1], pairs[1:]) from segment i on
RECURSIVE InterpFrom(_, _, _)
InterpFrom(value, pairs, i) ==
    IF i + 1 > Len(pairs) THEN ValueError
    ELSE LET a == pairs[i].a
             x == pairs[i].y
             b == pairs[i + 1].a
             y == pairs[i + 1].y
         IN  IF value = a THEN Rat(x, 1)
             ELSE IF value = b THEN Rat(y, 1)
             ELSE IF a <= value /\ value <= b THEN lerp(value, a, b, x, y)
             ELSE InterpFrom(value, pairs, i + 1)

interp(value, pairs) == InterpFrom(value, pairs, 1)

NoInterp == [value |-> 0, pairs |-> <<>>, res |-> NoResult]

\* a call of interp(value, pairs) returns or raises
interp_call ==
    /\ icall.res = NoResult
    /\ icall' = [icall EXCEPT !.res = interp(icall.value, icall.pairs)]
    /\ UNCHANGED besideUtil

InitInterp == icall = NoInterp

NextInterp == interp_call

----------------------------------------------------------------------------
(* PWState called by several threads: the RLock, update record by record,
   and the generator of query_all, which keeps the lock while it is
   suspended at a yield *)

\* 1 is the thread of the dispatch loop, 2 another caller
Threads == {1, 2}

\* the records of the batches the threads apply: each stores a sink, stores
\* an object that is none, or deletes
LockRecords == [id : Ids, info : {InfoSink, InfoEmpty, InfoNull}]

NoUpdate == [on |-> FALSE, i |-> 0, moved |-> FALSE]
NoScan == [state |-> "none", rest |-> <<>>, size0 |-> 0, frozen |-> FALSE,
           old |-> <<>>, oldsize |-> 0, expect |-> <<>>]

\* RLock.acquire does not block the thread t
CanAcquire(t) == lock.owner \in {0, t}
Acquire(t) == [owner |-> t, depth |-> lock.depth + 1]
Release(l) ==
    IF l.depth = 1 THEN [owner |-> 0, depth |-> 0]
    ELSE [owner |-> l.owner, depth |-> l.depth - 1]

\* the ids of a dict, in its order
RECURSIVE IdsOf(_)
IdsOf(d) == IF d = <<>> THEN <<>> ELSE <<Head(d).id>> \o IdsOf(Tail(d))

\* the objects of d with the ids in rest
RECURSIVE ObjsOf(_, _)
ObjsOf(d, rest) ==
    IF rest = <<>> THEN <<>>
    ELSE <<GetObj(d, Head(rest))>> \o ObjsOf(d, Tail(rest))

\* what a dict iterator made before has ahead of it once record r has been
\* applied to the dict d: a deleted entry is skipped, a new key is added at
\* the end, an overwritten value stays in its place
IterAfter(sc, d, r) ==
    IF sc.state = "none" \/ sc.frozen THEN sc
    ELSE IF IsDelete(r)
         THEN LET Keep(id) == id # r.id
              IN  [sc EXCEPT !.rest = SelectSeq(sc.rest, Keep)]
         ELSE IF HasId(d, r.id) THEN sc
              ELSE [sc EXCEPT !.rest = Append(sc.rest, r.id)]

\* self.db = {} while a dict iterator is at work: it goes on in the dict
\* self.db was bound to
IterReset(sc, d) ==
    IF sc.state = "none" \/ sc.frozen THEN sc
    ELSE [sc EXCEPT !.frozen = TRUE, !.old = ObjsOf(d, sc.rest),
                    !.oldsize = Len(d), !.rest = <<>>]

\* next() of the dict iterator: "dictionary changed size during iteration"
\* when the dict no longer has the size it had; else the next value, or the
\* end
IterNext(sc, d) ==
    LET size == IF sc.frozen THEN sc.oldsize ELSE Len(d)
        ahead == IF sc.frozen THEN sc.old ELSE ObjsOf(d, sc.rest)
    IN  IF size # sc.size0 THEN [kind |-> "RuntimeError", obj |-> <<>>]
        ELSE IF ahead = <<>> THEN [kind |-> "StopIteration", obj |-> <<>>]
        ELSE [kind |-> "yield", obj |-> <<Head(ahead)>>]

\* the generator after its iterator has given o: suspended at the yield, or
\* over
Resume(sc, o) ==
    IF o.kind # "yield" THEN NoScan
    ELSE [sc EXCEPT !.state = "open",
                    !.rest = IF sc.frozen THEN <<>> ELSE Tail(sc.rest),
                    !.old = IF sc.frozen THEN Tail(sc.old) ELSE <<>>,
                    !.expect = IF sc.expect = <<>> THEN <<>>
                               ELSE Tail(sc.expect)]

\* what the outcome o of a resumed scan adds to scanBad
Judge(sc, o) ==
    IF scanBad # "none" THEN scanBad
    ELSE IF o.kind = "RuntimeError" THEN "RuntimeError"
    ELSE IF o.kind = "StopIteration"
         THEN IF sc.expect = <<>> THEN "none" ELSE "wrong"
    ELSE IF sc.expect # <<>> /\ o.obj[1] = Head(sc.expect) THEN "none"
    ELSE "wrong"

otherLock ==
    <<framerVars, lookupVars, ddcVars, queueVars, utilVars, twin, lastKind,
      lastSize, lastLen, lastFor, err, qres>>

\* update(data), lines 527-533: the thread takes the lock and is about to
\* apply the first record of a batch
upd_begin ==
    /\ \E t \in Threads :
        /\ ~upd[t].on
        /\ CanAcquire(t)
        /\ lock' = Acquire(t)
        /\ upd' = [upd EXCEPT ![t] = [on |-> TRUE, i |-> 0, moved |-> FALSE]]
    /\ UNCHANGED <<db, scan, torn, scanBad>>
    /\ UNCHANGED otherLock

\* update, lines 534-538: the next record r of the batch is applied; the del
\* of an id that is not there raises KeyError; the with statement gives the
\* lock back when the loop ends (r is the last record) or raises
upd_record ==
    /\ \E t \in Threads, r \in LockRecords, last \in BOOLEAN :
        /\ upd[t].on
        /\ upd[t].i + 1 = LockBatchLen => last
        /\ LET u == upd[t]
               raises == IsDelete(r) /\ ~HasId(db, r.id)
               over == raises \/ last
           IN  /\ db' = IF raises THEN db
                        ELSE IF IsDelete(r) THEN DelId(db, r.id)
                        ELSE PutObj(db, r)
               /\ scan' = IF raises THEN scan
                          ELSE [scan EXCEPT ![t] = IterAfter(@, db, r)]
               /\ upd' = [upd EXCEPT ![t] =
                            IF over THEN NoUpdate
                            ELSE [on |-> TRUE, i |-> u.i + 1,
                                  moved |-> u.moved \/ db' # db]]
               /\ lock' = IF over THEN Release(lock) ELSE lock
               /\ torn' = IF raises /\ u.moved THEN t ELSE torn
    /\ UNCHANGED scanBad
    /\ UNCHANGED otherLock

\* update("RESET"), lines 527-530
upd_reset ==
    /\ \E t \in Threads :
        /\ ~upd[t].on
        /\ CanAcquire(t)
        /\ scan' = [scan EXCEPT ![t] = IterReset(@, db)]
    /\ db' = <<>>
    /\ torn' = 0
    /\ UNCHANGED <<lock, upd, scanBad>>
    /\ UNCHANGED otherLock

\* query_all(), lines 558-562, at the first next(): the generator takes the
\* lock, makes the iterator of self.db.values() and runs to its first yield
\* or to its end
scan_start ==
    /\ \E t \in Threads :
        /\ scan[t].state = "none"
        /\ ~upd[t].on
        /\ CanAcquire(t)
        /\ LET sc == [state |-> "open", rest |-> IdsOf(db), size0 |-> Len(db),
                      frozen |-> FALSE, old |-> <<>>, oldsize |-> 0,
                      expect |-> db]
               o == IterNext(sc, db)
           IN  /\ scan' = [scan EXCEPT ![t] = Resume(sc, o)]
               /\ lock' = IF o.kind = "yield" THEN Acquire(t) ELSE lock
               /\ scanBad' = Judge(sc, o)
    /\ UNCHANGED <<db, upd, torn>>
    /\ UNCHANGED otherLock

\* a later next() of the generator: it runs from its yield to the next one,
\* to its end, or to the RuntimeError of the iterator
scan_next ==
    /\ \E t \in Threads :
        /\ scan[t].state = "open"
        /\ ~upd[t].on
        /\ LET o == IterNext(scan[t], db)
           IN  /\ scan' = [scan EXCEPT ![t] = Resume(@, o)]
               /\ lock' = IF o.kind = "yield" THEN lock ELSE Release(lock)
               /\ scanBad' = Judge(scan[t], o)
    /\ UNCHANGED <<db, upd, torn>>
    /\ UNCHANGED otherLock

\* the caller stops consuming the generator and keeps its reference to it:
\* the generator stays suspended inside "with self.lock"
scan_keep ==
    /\ \E t \in Threads :
        /\ scan[t].state = "open"
        /\ ~upd[t].on
        /\ scan' = [scan EXCEPT ![t].state = "kept"]
    /\ UNCHANGED <<db, lock, upd, torn, scanBad>>
    /\ UNCHANGED otherLock

\* the last reference to the suspended generator goes (as when query
\* returns its first match): it is closed, and the with statement gives
\* the lock back
scan_close ==
    /\ \E t \in Threads :
        /\ scan[t].state \in {"open", "kept"}
        /\ ~upd[t].on
        /\ scan' = [scan EXCEPT ![t] = NoScan]
    /\ lock' = Release(lock)
    /\ UNCHANGED <<db, upd, torn, scanBad>>
    /\ UNCHANGED otherLock

InitLock ==
    /\ lock = [owner |-> 0, depth |-> 0]
    /\ upd = [t \in Threads |-> NoUpdate]
    /\ scan = [t \in Threads |-> NoScan]
    /\ torn = 0
    /\ scanBad = "none"

NextLock ==
    upd_begin \/ upd_record \/ upd_reset \/ scan_start \/ scan_next
    \/ scan_keep \/ scan_close

----------------------------------------------------------------------------
InitFramer ==
    /\ proc = 0
    /\ alive = FALSE
    /\ items = <<>>
    /\ wpos = 0
    /\ rpos = 0
    /\ buffer = <<>>
    /\ buffer_was_reset = TRUE
    /\ out = <<>>
    /\ result = "none"
    /\ tried = <<>>
    /\ stalled = FALSE
    /\ bufInst = {}
    /\ replaced = FALSE

NoCall == [op |-> "none", kw |-> <<>>, args |-> <<>>, err |-> "none",
           objs |-> <<>>, evals |-> {}]

InitLookup == call = NoCall

Init ==
    InitFramer /\ InitMirror /\ InitLookup /\ InitDdc /\ InitQueue
    /\ InitInterp /\ InitLock

NextFramer == __next__ \/ fileno \/ ProcWrite \/ ProcExit

SpecFramer == Init /\ [][NextFramer]_vars

\* the contents self.db can have: objects of distinct ids, none with a null
\* info, in any order
Mirrors ==
    {m \in UNION {[1..n -> [id : Ids, info : InfoVals \ {InfoNull}]] :
                     n \in 0..Cardinality(Ids)} :
        \A i, j \in DOMAIN m : i # j => m[i].id # m[j].id}

\* the lookup methods are functions of the mirror and of their arguments:
\* they are called on every content the mirror can have
InitLookupOn ==
    /\ InitFramer
    /\ db \in Mirrors
    /\ twin = db
    /\ lastKind = "none"
    /\ lastSize = 0
    /\ lastLen = 0
    /\ lastFor = [id \in Ids |-> InfoNone]
    /\ err = "none"
    /\ qres = [op |-> "none", filters |-> <<>>, objs |-> <<>>]
    /\ InitLookup
    /\ InitDdc
    /\ InitQueue
    /\ InitInterp
    /\ InitLock

NextLookup == get_by_ids \/ get_by_id \/ query_all_kwargs \/ query_kwargs

SpecLookup == InitLookupOn /\ [][NextLookup]_vars

NextMirror == update \/ query_all \/ query

SpecMirror == Init /\ [][NextMirror]_vars

SpecDdc == Init /\ [][NextDdc]_vars

SpecMain == Init /\ [][NextMain]_vars

\* interp is a function of its arguments: it is called on every value and
\* every list of pairs
InitInterpOn ==
    /\ InitFramer /\ InitMirror /\ InitLookup /\ InitDdc /\ InitQueue
    /\ InitLock
    /\ icall \in [value : Values, pairs : PairLists, res : {NoResult}]

SpecInterp == InitInterpOn /\ [][NextInterp]_vars

SpecLock == Init /\ [][NextLock]_vars

----------------------------------------------------------------------------
(* The stream framer's claims. *)

IsData(x) == x.kind = "data"
\* the data values __next__ returned since the last launch, in order
DataOut == SelectSeq(out, IsData)
\* how many of the instance's values the framer has read to their last byte
Received == Cardinality({i \in DOMAIN items : EndOffset(items, i) <= rpos})

IsPrefixOf(p, s) == Len(p) <= Len(s) /\ p = SubSeq(s, 1, Len(p))
\* buf is a proper, non-empty prefix of the text of a JSON value
IsProperPrefix(buf) ==
    \E v \in ValueTexts :
        LET c == Utf8Decode(v).s
        IN  buf # <<>> /\ Len(buf) < Len(c) /\ IsPrefixOf(buf, c)

\* C1: whatever the chunk boundaries, the framer yields after the reset
\* marker exactly the written values in the written order, each once, and
\* leaves none stuck: when it reports "no value ready", every value it has
\* read to the last byte has been yielded.
C1_YieldsWrittenValues ==
    proc # 0 =>
        /\ Len(DataOut) <= Received
        /\ \A i \in DOMAIN DataOut : DataOut[i].val = ValueOf(items[i].txt)
        /\ result = "StopIteration" => Len(DataOut) = Received

\* C2 as stated: a buffer that is a proper prefix of a value gives
\* StopIteration, no error, and keeps every byte; once the rest has arrived
\* the call returns the complete value.
C2_TruncatedPrefix ==
    /\ (tried # <<>> /\ IsProperPrefix(tried)) =>
           (result = "StopIteration" /\ buffer = tried)
    /\ \A v \in ValueTexts :
           (tried # <<>> /\ IsPrefixOf(Utf8Decode(v).s, tried)) =>
               (result = "data" /\ out[Len(out)].val = ValueOf(v))

\* C2 amended: the same for a buffer shorter than the ceiling; at the
\* ceiling a truncated prefix is the fatal error of C5.
C2_TruncatedPrefixBelowCeiling ==
    /\ (tried # <<>> /\ IsProperPrefix(tried) /\ Len(tried) < BufferCeiling) =>
           (result = "StopIteration" /\ buffer = tried)
    /\ \A v \in ValueTexts :
           (tried # <<>> /\ IsPrefixOf(Utf8Decode(v).s, tried)) =>
               (result = "data" /\ out[Len(out)].val = ValueOf(v))

\* a value was returned whole after a call had found only its prefix
C2_Witness ==
    \E i \in DOMAIN out :
        out[i].kind = "data" /\ out[i].resumed /\ out[i].val = ValueOf(TxtPair)

\* C3: after each (re)start the framer yields exactly one RESET marker, and
\* yields it before any data value of that instance: of what it has yielded
\* since the launch, the first item and only the first is the marker, and
\* the marker is due exactly as long as nothing has been yielded.
C3_OneResetFirst ==
    /\ \A i \in DOMAIN out : (out[i].kind = "RESET") <=> (i = 1)
    /\ buffer_was_reset <=> (out = <<>>)

\* a relaunched instance has yielded its marker and then a data value
C3_Witness == replaced /\ Len(out) >= 2 /\ out[2].kind = "data"

\* C4: an exit of the subprocess is never fatal to the framer: the next use
\* relaunches it, the old buffer is discarded, the next value yielded is the
\* RESET marker and no byte of the old instance is decoded after it.
C4_ExitNeverFatal ==
    /\ result # "hang"
    /\ bufInst \subseteq {proc}
    /\ (proc # 0 /\ out # <<>>) => out[1].kind = "RESET"

\* C5: a failed raw_decode is the fatal AssertionError when the buffer has
\* reached the ceiling, and StopIteration while it is below it.
C5_Ceiling ==
    /\ (tried # <<>> /\ ~RawDecode(tried).ok) =>
           IF Len(tried) >= BufferCeiling
           THEN result = "AssertionError"
           ELSE result = "StopIteration"
    /\ result = "AssertionError" =>
           (tried # <<>> /\ Len(tried) >= BufferCeiling /\ ~RawDecode(tried).ok)

\* the assertion failed on a buffer exactly as long as the ceiling
C5_Witness == result = "AssertionError" /\ Len(tried) = BufferCeiling

----------------------------------------------------------------------------
(* claims about the mirror *)

Named(id) == lastFor[id] # InfoNone
CarriesData(info) == info.kind = "dict" /\ info.mc # <<>>
AskedSinks(op) == qres.op = op /\ qres.filters = SinkFilter
SinkAhead(id) ==
    \E i, j \in DOMAIN db : i < j /\ db[j].id = id /\ is_sink(db[i])

\* C6: after update with the reset marker the mirror is empty whatever it
\* held, and a scan with no filters made right after yields no object
C6_ResetEmpties ==
    lastKind = "RESET" =>
        /\ db = <<>>
        /\ (qres.op = "query_all" /\ qres.filters = <<>>) => qres.objs = <<>>

C6_Witness ==
    /\ lastKind = "RESET"
    /\ lastFor[5] = InfoSink /\ lastLen = lastSize
    /\ qres.op = "query_all" /\ qres.filters = <<>>

\* C7: a batch applied as two updates, its first records and then the rest,
\* gives the mirror that one update with the whole batch gives; and after a
\* batch that applied, the last record naming an id decides whether the id
\* is in the mirror and with which data
C7_BatchesCompose ==
    /\ db = twin
    /\ (lastKind = "batch" /\ err = "none") =>
         \A id \in Ids : Named(id) =>
             IF lastFor[id] = InfoNull THEN ~HasId(db, id)
             ELSE HasId(db, id) /\ GetObj(db, id).info = lastFor[id]

C7_Witness ==
    /\ lastKind = "batch" /\ err = "none" /\ lastSize = 2
    /\ lastFor[3] = InfoEmpty /\ ~Named(5)
    /\ db = <<[id |-> 5, info |-> InfoSink], [id |-> 3, info |-> InfoEmpty]>>

\* C8 as stated: after a record is applied its id is in the mirror exactly
\* when the record carried info data; an absent or empty info removes it
C8_PresentIffInfoData ==
    lastKind = "batch" =>
        \A id \in Ids : Named(id) =>
            (HasId(db, id) <=> CarriesData(lastFor[id]))

\* C8 amended: after a record is applied its id is in the mirror exactly when
\* the record's info is not null, and the entry is that record; a record with
\* no info key, or with an empty info, is stored like any other
C8_PresentIffInfoNotNull ==
    lastKind = "batch" =>
        \A id \in Ids : Named(id) =>
            /\ HasId(db, id) <=> lastFor[id] # InfoNull
            /\ HasId(db, id) => GetObj(db, id).info = lastFor[id]

C8_Witness ==
    /\ lastKind = "batch" /\ err = "none"
    /\ lastFor[3] = InfoAbsent /\ HasId(db, 3)
    /\ lastFor[5] = InfoNull /\ ~HasId(db, 5)

\* C9 as stated: after an upsert of an Audio/Sink object, query(is_sink=True)
\* returns an object with that id; after the delete record for the id, the
\* same query returns no object with that id
C9_SinkRoundTrip ==
    (lastKind = "batch" /\ err = "none" /\ AskedSinks("query")) =>
        \A id \in Ids :
            /\ lastFor[id] = InfoSink =>
                 (qres.objs # <<>> /\ qres.objs[1].id = id)
            /\ lastFor[id] = InfoNull =>
                 \A i \in DOMAIN qres.objs : qres.objs[i].id # id

\* C9 amended: after an upsert of an Audio/Sink object, query(is_sink=True)
\* returns a sink, which is the object of that id unless another sink stands
\* before it in the mirror, and query_all(is_sink=True) yields the object of
\* that id; after the delete record neither returns an object with that id
C9_SinkRoundTripFirstSink ==
    (lastKind = "batch" /\ err = "none") =>
        \A id \in Ids :
            /\ (lastFor[id] = InfoSink /\ AskedSinks("query")) =>
                 /\ qres.objs # <<>> /\ is_sink(qres.objs[1])
                 /\ ~SinkAhead(id) => qres.objs[1].id = id
            /\ (lastFor[id] = InfoSink /\ AskedSinks("query_all")) =>
                 \E i \in DOMAIN qres.objs : qres.objs[i].id = id
            /\ (lastFor[id] = InfoNull /\ qres.filters = SinkFilter) =>
                 \A i \in DOMAIN qres.objs : qres.objs[i].id # id

C9_Witness ==
    /\ lastKind = "batch" /\ err = "none" /\ AskedSinks("query")
    /\ lastFor[5] = InfoSink /\ lastFor[3] = InfoNull
    /\ qres.objs = <<[id |-> 5, info |-> InfoSink]>>

\* C10: a delete record for an id that is not in the mirror raises nothing,
\* and update takes every record of the batch
C10_DeleteAbsentIsNoOp ==
    /\ err = "none"
    /\ lastLen = lastSize

\* C33: an update that raises while it applies a batch leaves the mirror as
\* it was before the batch: no record of the failed batch stays applied
C33_FailedBatchLeavesMirror ==
    [][err' # "none" => db' = db]_vars

----------------------------------------------------------------------------
(* claims about the lookup methods *)

\* C11: get_by_id(id) returns the object stored under id when the mirror
\* has it, None when it has not, and never raises
C11_GetByIdFindsOrNone ==
    call.op = "get_by_id" =>
        /\ call.err = "none"
        /\ call.objs = IF HasId(db, call.args[1].n)
                       THEN <<GetObj(db, call.args[1].n)>> ELSE <<>>

IsQuery == call.op \in {"query", "query_all"}
Supported(item) == item.val.t \in {"bool", "int", "list"}
WellFormed(kw) ==
    \A k \in DOMAIN kw : kw[k].attr \in Accessors /\ Supported(kw[k])
\* the filter attr=val is true of the object: its attribute equals the value,
\* or one of the values of a list
Holds(item, o) ==
    LET v == GetAttr(o, item.attr)
    IN  IF item.val.t = "list"
        THEN \E i \in DOMAIN item.val.xs : PyEq(v, PyInt(item.val.xs[i]))
        ELSE PyEq(v, item.val)
Matching(d, kw) ==
    LET Test(o) == \A k \in DOMAIN kw : Holds(kw[k], o) IN SelectSeq(d, Test)
IndexOf(d, o) == CHOOSE i \in DOMAIN d : d[i] = o

\* C12: query_all with well-formed filters yields exactly the objects of the
\* mirror of which every filter is true, each once, in the mirror's order;
\* with no filter it yields every object
C12_QueryAllIsConjunction ==
    (call.op = "query_all" /\ WellFormed(call.kw)) =>
        /\ call.err = "none"
        /\ call.objs = Matching(db, call.kw)
        /\ call.kw = <<>> => call.objs = db

C12_Witness ==
    /\ call.op = "query_all" /\ WellFormed(call.kw) /\ Len(call.kw) = 2
    /\ Len(db) = 2 /\ is_sink(db[1]) /\ is_sink(db[2])
    /\ Len(call.objs) = 1

\* C13: query returns the first object query_all would yield, None when
\* there is none, and runs no filter on an object behind the one it returns
C13_QueryFirstShortCircuit ==
    (call.op = "query" /\ call.err = "none") =>
        /\ call.objs = IF QueryAll(db, call.kw) = <<>> THEN <<>>
                       ELSE <<Head(QueryAll(db, call.kw))>>
        /\ call.objs # <<>> =>
             \A e \in call.evals : e[1] <= IndexOf(db, call.objs[1])

C13_Witness ==
    /\ call.op = "query" /\ call.kw = SinkFilter
    /\ Len(db) = 2 /\ is_sink(db[1]) /\ is_sink(db[2])
    /\ call.objs = <<db[1]>> /\ call.evals = {<<1, 1>>}

\* C14: a query with a filter on a name that is no accessor raises
\* AttributeError, whatever the mirror holds and whatever the other filters
\* are (the values all being of supported types)
C14_UnknownAttributeRaises ==
    (/\ IsQuery
     /\ \E k \in DOMAIN call.kw : call.kw[k].attr \notin Accessors
     /\ \A k \in DOMAIN call.kw : Supported(call.kw[k])) =>
        call.err = "AttributeError"

\* C15: a query with a filter value of type float, bytes or mapping raises
\* TypeError on every mirror: it gives no object and runs no filter
C15_UnsupportedValueRaises ==
    (IsQuery /\ \E k \in DOMAIN call.kw : ~Supported(call.kw[k])) =>
        (call.err = "TypeError" /\ call.objs = <<>> /\ call.evals = {})

C15_Witness ==
    /\ call.op = "query" /\ call.err = "TypeError"
    /\ Len(call.kw) = 2 /\ call.kw[1] = [attr |-> "id", val |-> PyInt(5)]
    /\ call.kw[2].val = PyFloat
    /\ HasId(db, 5)


----------------------------------------------------------------------------
(* Claims about DdcutilInterface *)

\* no request is being served and no Timer is waiting or flushing
Quiescent ==
    /\ mpc = "idle"
    /\ \A t \in TimerIds : tstate[t] \in {"unborn", "cancelled", "done", "died"}

\* the one SetVcp call a burst for the brightness of display 1 leads to
BurstCall ==
    [display |-> 1, code |-> VcpBrightness, value |-> Round100(inBurst.value)]

\* C16: a burst of requests for the brightness of one display, each arriving
\* before the Timer armed by the one before it has fired, leads to at most
\* one flush and one SetVcp call, the call carries the value of the last
\* request scaled to a percentage, and when every Timer has ended there has
\* been exactly one flush and one call
C16_BurstGivesOneFlush ==
    (inBurst.on /\ nreq >= 1) =>
        /\ flushes <= 1
        /\ ncalls <= 1
        /\ ncalls = 1 => lastCall = BurstCall
        /\ Quiescent => (flushes = 1 /\ ncalls = 1)

\* three requests in a burst, the last for 0.9, and the one call made with 90
C16_Witness ==
    /\ inBurst.on
    /\ nreq = 3
    /\ inBurst.value = NineTenths
    /\ Quiescent
    /\ flushes = 1
    /\ ncalls = 1
    /\ lastCall = [display |-> 1, code |-> VcpBrightness, value |-> 90]

\* C17: between two flushes the pending map holds, for each display and
\* field, the value of the most recent request that set that field for that
\* display, and nothing for a pair no request has set since the last flush:
\* a request changes no pending value of a field it does not set or of a
\* display it does not name
C17_PendingIsLastRequested ==
    \A d \in Displays, f \in Fields :
        Pending(future_values, d, f) = latest[d][f]

\* a brightness request for display 1 and then a contrast request for
\* displays 2 and 1 were merged, and the one flush took both values of
\* display 1 and the contrast of display 2
C17_Witness ==
    /\ nreq = 2
    /\ flushes = 1
    /\ \E t \in TimerIds :
        /\ tstate[t] = "calling"
        /\ Len(actions[t]) = 3
        /\ actions[t][1].display = 1 /\ actions[t][1].code = VcpBrightness
        /\ actions[t][2] = [display |-> 1, code |-> VcpContrast, value |-> 50]
        /\ actions[t][3] = [display |-> 2, code |-> VcpContrast, value |-> 50]

\* C18: a SetVcp call that fails, by an error status or by raising, is
\* reported, and every remaining call of the same flush is still made
C18_FailedCallReportedSiblingsIssued ==
    ~dropped /\ ~unreported

----------------------------------------------------------------------------
(* Claims about the dispatch loop of main *)

\* C19: the loop takes the items in the order they were put and routes each
\* by its tag, a ("pw", ...) item to the mirror and a ("midi", port, msg)
\* item to the handler: each time the handler has run the mirror was what
\* the "pw" items put before its event give, applied in the order they were
\* put, and when the loop has taken every item the mirror is what all the
\* "pw" items put give
C19_HandlerSeesItemsBefore ==
    /\ handled.n > 0 => handled.ok
    /\ (~LoopEnded /\ main_queue = <<>>) => db = shadow

\* a batch was applied and then the handler ran on a MIDI event put after it
C19_Witness ==
    /\ ntaken = 3
    /\ handled.n = 1
    /\ handled.ok
    /\ handled.port = MidiPort /\ handled.msg = 127
    /\ db # <<>>
    /\ ~LoopEnded

\* C20: an exception raised by handle_midi_message leaves the dispatch loop:
\* the loop is over and takes no item after that one
C20_HandlerExceptionEndsLoop ==
    raisedAt # 0 => (ended = "handler" /\ ntaken = raisedAt)

\* the handler has raised on the first item while two more were in the queue
C20_Witness ==
    /\ raisedAt = 1
    /\ ntaken = 1
    /\ Len(main_queue) = 2
    /\ ended = "handler"

----------------------------------------------------------------------------
(* Claims about interp *)

\* the first elements of the pairs increase
Increasing(pairs) ==
    \A i \in 1..(Len(pairs) - 1) : pairs[i].a < pairs[i + 1].a
NonDecreasing(pairs) ==
    \A i \in 1..(Len(pairs) - 1) : pairs[i].a <= pairs[i + 1].a

\* the call of interp has ended
Interpolated == icall.res # NoResult

C22_OutOfBoundsRaises ==
    LET value == icall.value
        pairs == icall.pairs
    IN  (/\ Interpolated
         /\ pairs # <<>>
         /\ NonDecreasing(pairs)
         /\ value < pairs[1].a \/ value > pairs[Len(pairs)].a)
        => icall.res.kind = "ValueError"

\* breakpoints from 0 to 3: the value 4 raises ValueError
C22_Witness ==
    /\ Interpolated
    /\ icall.value = 4
    /\ icall.pairs = <<[a |-> 0, y |-> 0], [a |-> 1, y |-> 0],
                       [a |-> 3, y |-> 1]>>
    /\ icall.res.kind = "ValueError"

----------------------------------------------------------------------------
(* Claims about the feeder thread and the dispatch loop *)

\* C23: once PWDump.__next__ has raised the buffer-ceiling error in the
\* thread of pw_dump_producer the process stops: the dispatch loop takes no
\* further item
C23_CeilingErrorStopsProcess ==
    pw_thread.state = "AssertionError" => ntaken = pw_thread.taken

----------------------------------------------------------------------------
(* Claims about the Timers of DdcutilInterface *)

\* C24: after set_brightness_contrast has returned only the Timer it has
\* started can perform a flush: no flush takes the pending map in a Timer
\* that a later request has replaced
C24_SupersededTimerNeverFlushes ==
    ~lateTake

\* the actions of a flush name each display and code once, with the code
\* 0x10 or 0x12
OnePerPair(acts) ==
    /\ \A i \in DOMAIN acts : acts[i].code \in {VcpBrightness, VcpContrast}
    /\ \A i, j \in DOMAIN acts :
        (acts[i].display = acts[j].display /\ acts[i].code = acts[j].code)
            => i = j

\* C27: a flush takes every entry of the pending map under the lock and
\* then makes exactly one SetVcp call for each display and field whose value
\* it took, with code 0x10 for a brightness and 0x12 for a contrast, and no
\* other call: its actions name each pair once, and a flush that has ended
\* has made every one of them
C27_FlushCallsEachTakenPairOnce ==
    \A t \in TimerIds :
        /\ tstate[t] \in {"taken", "calling", "died"} =>
              OnePerPair(actions[t])
        /\ tstate[t] = "done" => actions[t] = <<>>
        /\ tstate[t] = "died" => issued[t] = Len(actions[t])

\* the flush of some Timer is at the ping of _auto_reconnect or at a SetVcp
\* call
ControlCall == \E t \in TimerIds : tstate[t] \in {"taken", "calling"}

\* C28: timer_lock is not held while the ping or a SetVcp call of a flush is
\* in progress, so a request that arrives then finds the lock free, merges
\* its values and returns
C28_LockFreeDuringControlCall ==
    ControlCall => timer_lock = 0

\* the flush of the first Timer is at its first SetVcp call, and a second
\* request has merged its values into the map that flush had emptied and
\* has started its Timer
C28_Witness ==
    /\ tstate[1] = "calling"
    /\ issued[1] = 0
    /\ nreq = 2
    /\ mpc = "idle"
    /\ timer_thread = 2
    /\ tstate[2] = "armed"
    /\ future_values # <<>>

\* C29: when requests have stopped and the channel is idle again (no
\* request is being served, no Timer is waiting and no flush is running),
\* every value requested has been taken out of the pending map and every
\* value a flush took has been passed to SetVcp: none is left in the map
\* and none was taken and not issued
C29_IdleChannelOwesNothing ==
    Quiescent =>
        /\ future_values = <<>>
        /\ \A t \in TimerIds : issued[t] = Len(actions[t])

\* the Timers whose flush has SetVcp calls to make
Calling == {t \in TimerIds : tstate[t] = "calling"}

\* C32: at most one flush of the instance is at work at any time: the flush
\* of a newer Timer makes no SetVcp call while the flush of an older Timer
\* still has calls of its own to make
\* C31: the SetVcp calls for a display and field are made in the order of
\* the requests whose values they carry: once every flush has ended, the
\* last call made for the brightness of display 1 carries the value of the
\* last request for it
C31_LastCallCarriesLastRequest ==
    (Quiescent /\ bright1.called # 0) => bright1.called = bright1.asked

C32_OneFlushAtATime ==
    Cardinality(Calling) <= 1

----------------------------------------------------------------------------
(* Claims about PWState called by several threads *)

\* C25: update holds the lock for the whole batch, so a scan of another
\* thread reads the mirror as it was before a batch or as it is after the
\* whole batch: no scan is at work while another thread is inside update,
\* and none reads a mirror in which only a part of a batch of another
\* thread is applied
C25_BatchIsAtomicForReaders ==
    \A u \in Threads :
        scan[u].state # "none" =>
            /\ \A t \in Threads \ {u} : ~upd[t].on
            /\ torn \in {0, u}

\* C26: a scan yields exactly the objects the mirror held when it took the
\* lock, whatever update is applied before it has been consumed, by another
\* thread or by the scanning thread itself; it never raises and never
\* yields an object stored after it started
C26_ScanIsSnapshot ==
    scanBad = "none"

\* C30: the lock is given back when a caller stops consuming its scan, so
\* that no other caller of the mirror waits for ever
C30_LockFreedWhenScanAbandoned ==
    \A t \in Threads : scan[t].state = "kept" => lock.owner # t

============================================================================
